---- MODULE Spec2Model ----
(***************************************************************************)
(* A model of the media-file ingestion scripts of the repository:          *)
(*   convert-media-files.py        (grouping, extraction, transcode)       *)
(*   check-import-missing-data.py  (completeness check)                    *)
(*   validate-media-files.py       (media validation)                      *)
(*                                                                         *)
(* A file path is a record [dir, id, stem, ext]:                           *)
(*   stem "t"  the file is named  "Title [<id>]<ext>"                      *)
(*   stem "n"  the file is named  "[<id>]<ext>"                            *)
(*   stem "x"  the file name carries no identifier token (id = "")         *)
(* ext is the whole tail of the name after the stem (".info.json").        *)
(* The file system maps every existing path to its content, a record       *)
(* [origin, form]: the path the bytes derive from and what was done to     *)
(* them.                                                                   *)
(***************************************************************************)
EXTENDS Integers, Sequences, FiniteSets, TLC

\* ---------------------------------------------------------------- bounds
MaxFiles == 3
MaxPieces == 3
MaxProgress == 3
MaxAttachments == 2

\* ----------------------------------------------------------------- paths
NoPath == [dir |-> "", id |-> "", stem |-> "", ext |-> ""]
NoId == ""

Path(d, i, s, e) == [dir |-> d, id |-> i, stem |-> s, ext |-> e]

DIRS == {"d1", "d2"}

\* The files a directory may hold when a script starts.
Pool ==
    { Path("d1", "a", "t", e) :
        e \in {".mkv", ".webm", ".mp4", ".info.json", ".png", ".jpg", ".en.vtt"} }
    \cup { Path("d2", "a", "t", ".info.json") }
    \cup { Path("d1", "b", "t", e) : e \in {".mkv", ".info.json"} }

\* os.path.splitext(path)[1]: the last dotted suffix of the name.
SplitExt(p) ==
    CASE p.ext = ".info.json" -> ".json"
      [] p.ext \in {".en.vtt", ".de.vtt", ".None.vtt"} -> ".vtt"
      [] OTHER -> p.ext

\* str.endswith(suffix) for the suffixes the scripts ask about.
EndsWith(p, suffix) == p.ext = suffix \/ SplitExt(p) = suffix

\* ------------------------------------------------------------ file system
Exists(f, p) == p \in DOMAIN f

FsWrite(f, p, c) == [q \in DOMAIN f \cup {p} |-> IF q = p THEN c ELSE f[q]]

FsRemove(f, p) == [q \in DOMAIN f \ {p} |-> f[q]]

\* Mutant: the file is copied, the source stays.
FsCopy(f, src, dst) == FsWrite(f, dst, f[src])

\* os.rename of an existing src: dst is replaced, src == dst is a no-op.
FsRename(f, src, dst) ==
    IF src = dst THEN f ELSE FsRemove(FsWrite(f, dst, f[src]), src)

\* ------------------------------------------------------------- grouping
EXT_MAP ==
    [media |-> {".mkv", ".webm"},
     metadata |-> {".info.json"},
     thumb |-> {".jpg", ".png", ".webp"},
     subtitle |-> {".vtt"}]

CHECK_EXT_MAP ==
    [media |-> {".mkv", ".webm", ".mp4"},
     metadata |-> {".info.json"},
     thumb |-> {".jpg", ".png", ".webp"},
     subtitle |-> {".vtt"},
     description |-> {".description"}]

\* The token of the base name, as the regular expression finds it.
extract_video_id(file) == IF file.stem \in {"t", "n"} THEN file.id ELSE NoId

NewRecord(video_id) ==
    [media |-> NoPath, metadata |-> NoPath, thumb |-> NoPath,
     subtitle |-> <<>>, description |-> NoPath, video_id |-> video_id]

Categories(file, extmap) ==
    { c \in DOMAIN extmap : \E ext \in extmap[c] : EndsWith(file, ext) }

\* Mutant: a category that holds a path keeps it.
AssignFirst(rec, file, cats) ==
    [c \in DOMAIN rec |->
       IF c \notin cats THEN rec[c]
       ELSE IF c = "subtitle" THEN Append(rec[c], file)
       ELSE IF rec[c] = NoPath THEN file ELSE rec[c]]

\* Lines 225-232: every matching category takes the file.
RECURSIVE AssignAll(_, _, _)
AssignAll(rec, file, cats) ==
    IF cats = {} THEN rec
    ELSE LET c == CHOOSE x \in cats : TRUE
             r == IF c = "subtitle"
                  THEN [rec EXCEPT !.subtitle = Append(@, file)]
                  ELSE [rec EXCEPT ![c] = file]
         IN AssignAll(r, file, cats \ {c})

RECURSIVE categorize_loop(_, _, _)
categorize_loop(order, extmap, grouped) ==
    IF order = <<>> THEN grouped
    ELSE LET file == Head(order)
             video_id == extract_video_id(file)
             known == \E k \in 1..Len(grouped) : grouped[k].video_id = video_id
             g1 == IF video_id = NoId \/ known THEN grouped
                   ELSE Append(grouped, NewRecord(video_id))
             g2 == IF video_id = NoId THEN g1
                   ELSE [k \in 1..Len(g1) |->
                           IF g1[k].video_id = video_id
                           THEN AssignAll(g1[k], file, Categories(file, extmap))
                           ELSE g1[k]]
         IN categorize_loop(Tail(order), extmap, g2)

\* Mutant: the first file the walk lists is left out.
categorize_rest(order, extmap) ==
    IF order = <<>> THEN <<>> ELSE categorize_loop(Tail(order), extmap, <<>>)

categorize_files(order, extmap) == categorize_loop(order, extmap, <<>>)

RECURSIVE Perms(_)
Perms(S) ==
    IF S = {} THEN {<<>>}
    ELSE UNION { { <<x>> \o p : p \in Perms(S \ {x}) } : x \in S }

RECURSIVE SetToSeq(_)
SetToSeq(S) ==
    IF S = {} THEN <<>>
    ELSE LET x == CHOOSE y \in S : TRUE IN <<x>> \o SetToSeq(S \ {x})

\* The orders of the files of one identifier that can differ in what grouping
\* records: files compete only within one category (the last one is kept, the
\* subtitles are appended in order), so the categories follow one another and
\* the files of each category take every order.
RECURSIVE GroupSeqs(_, _)
GroupSeqs(groups, F) ==
    IF groups = {} THEN {<<>>}
    ELSE LET g == CHOOSE x \in groups : TRUE
             members == { f \in F : Categories(f, CHECK_EXT_MAP) = g }
         IN { p \o r : p \in Perms(members), r \in GroupSeqs(groups \ {g}, F) }

IdSeqs(F, id) ==
    LET Fid == { f \in F : extract_video_id(f) = id }
    IN GroupSeqs({ Categories(f, CHECK_EXT_MAP) : f \in Fid }, Fid)

\* <<heads, rest>>: the first file of every identifier in the order idseq, and
\* the other files.
RECURSIVE DirOrdersRec(_, _)
DirOrdersRec(idseq, F) ==
    IF idseq = <<>> THEN {<< <<>>, <<>> >>}
    ELSE { << <<Head(s)>> \o hr[1], Tail(s) \o hr[2] >> :
             s \in IdSeqs(F, Head(idseq)), hr \in DirOrdersRec(Tail(idseq), F) }

\* The orders in which os.walk may list the files of one directory, up to the
\* orders that group alike: the identifiers appear first in any order, and the
\* files of each category of an identifier come in any order.
DirOrders(F) ==
    LET ids == { extract_video_id(f) : f \in F } \ {NoId}
        rest == SetToSeq({ f \in F : extract_video_id(f) = NoId })
    IN { hr[1] \o hr[2] \o rest :
           hr \in UNION { DirOrdersRec(p, F) : p \in Perms(ids) } }

RECURSIVE WalkDirs(_, _)
WalkDirs(dirseq, files) ==
    IF dirseq = <<>> THEN {<<>>}
    ELSE { p \o r : p \in DirOrders({f \in files : f.dir = Head(dirseq)}),
                    r \in WalkDirs(Tail(dirseq), files) }

\* os.walk: directory by directory, the order of the directories and of the
\* files of one directory being whatever the file system returns.
WalkOrders(files) == UNION { WalkDirs(ds, files) : ds \in Perms(DIRS) }

\* ------------------------------------------------------- probed containers
\* What ffprobe -show_streams prints for a container. "tags" is absent from a
\* stream that carries none (has_tags = FALSE).
NoTags == [has_tags |-> FALSE, tags |-> <<>>]
Tags(t) == [has_tags |-> TRUE, tags |-> t]

Stream(codec_type, codec_name, t) ==
    [codec_type |-> codec_type, codec_name |-> codec_name,
     has_tags |-> t.has_tags, tags |-> t.tags]

FileName(base, ext) == [base |-> base, ext |-> ext]

VideoStream == Stream("video", "h264", NoTags)
AudioStream == Stream("audio", "opus", NoTags)
CoverStream(ext) ==
    Stream("attachment", "none",
           Tags("mimetype" :> "image" @@ "filename" :> FileName("cover", ext)))
SubStream(lang) == Stream("subtitle", "webvtt", Tags("language" :> lang))

KINDS == {"plain", "full", "untagged", "twins", "bare", "corrupt"}

Streams(kind) ==
    CASE kind = "plain" -> <<VideoStream, AudioStream>>
      [] kind = "full" ->
           <<VideoStream, AudioStream, SubStream("eng"), SubStream("deu"),
             CoverStream(".png")>>
      [] kind = "untagged" -> <<VideoStream, Stream("subtitle", "webvtt", NoTags)>>
      [] kind = "twins" -> <<VideoStream, SubStream("eng"), SubStream("eng")>>
      [] kind = "bare" ->
           <<VideoStream, AudioStream, Stream("attachment", "none", NoTags)>>
      [] OTHER -> <<>>

\* ISO639Utils.long2short
long2short(lang) ==
    CASE lang = "eng" -> "en"
      [] lang = "deu" -> "de"
      [] OTHER -> "None"

\* f".{lang}.vtt"
SubExt(lang) ==
    CASE lang = "en" -> ".en.vtt"
      [] lang = "de" -> ".de.vtt"
      [] OTHER -> ".None.vtt"

Content(origin, form, part) == [origin |-> origin, form |-> form, part |-> part]

\* ------------------------------------------------------------------ state
VARIABLES
    fs,             \* the directory tree: path -> content
    fs_start,       \* fs when the current run started
    tools,          \* which external binaries shutil.which / subprocess find
    container,      \* media path -> kind, for the containers probed so far
    pc,             \* position of convert-media-files.py
    done_before,    \* history: identifiers that passed line 326 in an earlier run
    categorized,    \* categorize_files(input_dir), line 248
    grouped_videos, \* the filtered list, lines 249-251
    idx,            \* index of current_video in grouped_videos (from 1)
    thumb_path,     \* line 270
    streams,        \* line 284 (the kind of the probed container)
    sidx,           \* position of the subtitle loop in streams (from 1)
    pbar_n,         \* pbar.n
    found,          \* the number printed at line 254
    ops,            \* history: [id, op] of every external call and file change of the run
    out,            \* history: every identifier the run printed
    completed,      \* history: every identifier that passed line 326 in the run
    err,            \* the exception that ended the run, or NoErr
    vpc,            \* which validation script has run: "idle" before
    missing_videos, \* the identifiers a validation script lists as missing
    invalid_media_files, \* validate-media-files.py, line 105
    filename,       \* extract_video_id: the argument, a sequence of characters
    youtube_id,     \* extract_video_id: what it returned
    npc,            \* position of a single call of a function: "call", "return"
    regrouped,      \* categorize_files(input_dir), called once more
    listing,        \* categorize_files: the files in the order os.walk listed them
    answered_yes,   \* history: every prompt of the run so far was answered y or Y
    emitted,        \* the progress values FfmpegProgress has still to yield
    delivered,      \* history: pbar2.n after every update of line 315
    pbar2_n,        \* pbar2.n
    media_file,     \* dump of a cover: the name of the media file, a character sequence
    attachments,    \* dump of a cover: the attachment streams ffprobe reports
    cover,          \* dump of a cover: what extraction did, [outcome, idx, path]
    ta_video,       \* the youtube_id values of the documents of index "ta_video"
    existing_ids_in_index, \* remove-duplicate-files.py, line 116
    files_to_remove,       \* remove-duplicate-files.py, line 118
    futures,        \* line 139: per submitted position "queued" or "done"
    failed_deletes  \* history: the paths for which os.remove raised

vars == <<fs, fs_start, tools, container, pc, done_before, categorized, grouped_videos,
          idx, thumb_path, streams, sidx, pbar_n, found, ops, out, completed, err,
          vpc, missing_videos, invalid_media_files, filename, youtube_id, npc,
          regrouped, listing, answered_yes, emitted, delivered, pbar2_n, media_file,
          attachments, cover, ta_video, existing_ids_in_index, files_to_remove,
          futures, failed_deletes>>

NoErr == [id |-> NoId, step |-> "", call |-> "", exc |-> ""]

Terminal == {"fatal", "aborted", "returned", "finished", "crashed", "killed"}
ItemSteps == {"thumb", "norm", "probe", "subs", "transcode", "rename", "remove"}

current_video == grouped_videos[idx]
video_id == current_video.video_id
media_path == current_video.media
\* Mutant: the directory is taken from the metadata file.
root_of_metadata == current_video.metadata.dir

\* os.path.dirname(os.path.abspath(current_video["media"]))
root_video_path == media_path.dir

Op(id, op) == [id |-> id, op |-> op]
Log(S) == ops' = ops \cup { Op(video_id, o) : o \in S }

\* No handler encloses any call of main: an exception ends the run.
Raise(step, call, exc) ==
    /\ pc' = "crashed"
    /\ err' = [id |-> video_id, step |-> step, call |-> call, exc |-> exc]

Locals == <<idx, thumb_path, streams, sidx>>
Batch == <<categorized, grouped_videos, found>>
Hist == <<out, completed, pbar_n>>
Validation == <<vpc, missing_videos, invalid_media_files>>
Progress == <<emitted, delivered, pbar2_n>>
Cover == <<media_file, attachments, cover>>
Dup == <<ta_video, existing_ids_in_index, files_to_remove, futures, failed_deletes>>
Pure == <<filename, youtube_id, npc, regrouped, listing, Progress, Cover, Dup>>

NoCover == [outcome |-> "pending", idx |-> 0, path |-> <<>>]

\* The values of the variables of a function or script that is not running.
NoProgress == emitted = <<>> /\ delivered = <<>> /\ pbar2_n = 0
NoDump == media_file = <<>> /\ attachments = <<>> /\ cover = NoCover
NoDup ==
    /\ ta_video = {}
    /\ existing_ids_in_index = {}
    /\ files_to_remove = <<>>
    /\ futures = <<>>
    /\ failed_deletes = {}

\* What the containers of the pool may hold.
PossibleKinds(media) ==
    CASE media.id = "a" /\ media.ext = ".mkv" -> {"full", "untagged"}
      [] media.id = "b" /\ media.ext = ".mkv" -> {"plain", "bare", "corrupt"}
      [] media.id = "a" /\ media.ext = ".webm" -> {"plain", "twins"}
      [] OTHER -> {"plain"}

\* The kinds a probe of media may report: the one already seen, else any.
KindsOf(media) ==
    IF media \in DOMAIN container THEN {container[media]} ELSE PossibleKinds(media)

\* A probe shows what the container holds, when there is a prober to run.
Seen(media, kind) ==
    container' = IF tools.ffprobe THEN (media :> kind) @@ container ELSE container

\* ------------------------------------------------------------------- Init
InitFs == { S \in SUBSET Pool : Cardinality(S) <= MaxFiles }

Init ==
    /\ \E S \in InitFs : fs = [p \in S |-> Content(p, "orig", "")]
    /\ fs_start = fs
    /\ tools \in { [ffmpeg |-> TRUE, ffprobe |-> TRUE],
                   [ffmpeg |-> TRUE, ffprobe |-> FALSE],
                   [ffmpeg |-> FALSE, ffprobe |-> TRUE] }
    /\ container = <<>>
    /\ pc = "start"
    /\ done_before = {}
    /\ categorized = <<>>
    /\ grouped_videos = <<>>
    /\ idx = 1
    /\ thumb_path = NoPath
    /\ streams = "none"
    /\ sidx = 1
    /\ pbar_n = 0
    /\ found = 0
    /\ ops = {}
    /\ out = {}
    /\ completed = {}
    /\ err = NoErr
    /\ vpc = "idle"
    /\ missing_videos = <<>>
    /\ invalid_media_files = <<>>
    /\ filename = <<>>
    /\ youtube_id = <<>>
    /\ npc = "idle"
    /\ regrouped = <<>>
    /\ listing = <<>>
    /\ answered_yes = TRUE
    /\ NoProgress
    /\ NoDump
    /\ NoDup

\* --------------------------------------------------------------- __main__
\* Lines 332-333: only ffmpeg is looked up.
Preflight ==
    /\ pc = "start"
    /\ pc' = IF tools.ffmpeg THEN "confirm" ELSE "fatal"
    /\ UNCHANGED <<fs, fs_start, tools, container, done_before, Batch, Locals, Hist, ops, err>>
    /\ UNCHANGED <<Validation, Pure, answered_yes>>

\* Mutant: every answer reads as "y".
LowerAlwaysY(c) == "y"

\* confirm.lower(), lines 339 and 347
Lower(c) == IF c = "Y" THEN "y" ELSE c

\* Lines 335-341
Confirm ==
    /\ pc = "confirm"
    /\ \E confirm \in {"y", "Y", "n", "yes", ""} :
         /\ pc' = IF Lower(confirm) # "y" THEN "aborted" ELSE "confirm2"
         /\ answered_yes' = (answered_yes /\ confirm \in {"y", "Y"})
    /\ UNCHANGED <<fs, fs_start, tools, container, done_before, Batch, Locals, Hist, ops, err>>
    /\ UNCHANGED <<Validation, Pure>>

\* Lines 343-351
Confirm2 ==
    /\ pc = "confirm2"
    /\ \E confirm2 \in {"y", "Y", "n", "yes", ""} :
         /\ pc' = IF Lower(confirm2) # "y" THEN "aborted" ELSE "main"
         /\ answered_yes' = (answered_yes /\ confirm2 \in {"y", "Y"})
    /\ UNCHANGED <<fs, fs_start, tools, container, done_before, Batch, Locals, Hist, ops, err>>
    /\ UNCHANGED <<Validation, Pure>>

\* ------------------------------------------------------------------- main
\* Mutant: the filter does not look at the media file.
UsableAny(v) == v.video_id # NoId

\* Lines 249-251
Usable(v) == v.media # NoPath /\ v.video_id # NoId

\* Mutant: the usable records are listed twice.
FilterTwice(seq) == SelectSeq(seq, Usable) \o SelectSeq(seq, Usable)

\* Lines 249-251
Filter(seq) == SelectSeq(seq, Usable)

\* len(unique_videos), line 253
UniqueCount(seq) == Cardinality({ seq[k].video_id : k \in 1..Len(seq) })

\* Lines 239-254
Main ==
    /\ pc = "main"
    /\ \E input_ok \in BOOLEAN :
         IF ~input_ok
         THEN /\ pc' = "returned"
              /\ UNCHANGED <<Batch, idx>>
         ELSE \E order \in WalkOrders(DOMAIN fs) :
                /\ categorized' = categorize_files(order, EXT_MAP)
                /\ grouped_videos' = Filter(categorized')
                /\ found' = UniqueCount(grouped_videos')
                /\ idx' = 1
                /\ pc' = "loop"
    /\ UNCHANGED <<fs, fs_start, tools, container, done_before, thumb_path, streams, sidx,
                   Hist, ops, err>>
    /\ UNCHANGED <<Validation, Pure, answered_yes>>

\* Line 261
Skip(v) == v.media = NoPath \/ EndsWith(v.media, ".mp4")

\* Lines 257-267, and line 328 when the list is exhausted
LoopHead ==
    /\ pc = "loop"
    /\ IF idx > Len(grouped_videos)
       THEN /\ pc' = "finished"
            /\ UNCHANGED <<idx, out>>
       ELSE /\ out' = out \cup {video_id}
            /\ IF Skip(current_video)
               THEN /\ idx' = idx + 1
                    /\ pc' = "loop"
               ELSE /\ pc' = "thumb"
                    /\ UNCHANGED idx
    /\ UNCHANGED <<fs, fs_start, tools, container, done_before, Batch, thumb_path, streams,
                   sidx, pbar_n, completed, ops, err>>
    /\ UNCHANGED <<Validation, Pure, answered_yes>>

\* --------------------------------------------------------------- thumbnail
Sibling(p, ext) == [p EXCEPT !.ext = ext]

\* media_file.rstrip(media_ext): the names of the model end in "]" before the
\* extension, so exactly the extension is stripped.
RStripExt(p) == [p EXCEPT !.ext = ""]

Attachments(kind) ==
    SelectSeq(Streams(kind), LAMBDA s : s.codec_type = "attachment")

StartsWithCover(name) == name.base = "cover"

\* Lines 138-144: the first qualifying attachment, 0 when there is none, -1 when
\* reading the tags raises KeyError first.
RECURSIVE MkvThumbScan(_, _)
MkvThumbScan(atts, k) ==
    IF k > Len(atts) THEN 0
    ELSE IF ~atts[k].has_tags THEN -1
    ELSE IF "mimetype" \in DOMAIN atts[k].tags
         THEN IF "filename" \notin DOMAIN atts[k].tags THEN -1
              ELSE IF StartsWithCover(atts[k].tags["filename"]) THEN k
              ELSE MkvThumbScan(atts, k + 1)
         ELSE MkvThumbScan(atts, k + 1)

get_mkv_thumb_stream(kind) == MkvThumbScan(Attachments(kind), 1)

\* Lines 98-106: "." and the codec name of the first png or jpg stream, "" for
\* False.
RECURSIVE Mp4ThumbScan(_, _)
Mp4ThumbScan(ss, k) ==
    IF k > Len(ss) THEN ""
    ELSE IF ss[k].codec_name = "png" THEN ".png"
    ELSE IF ss[k].codec_name = "jpg" THEN ".jpg"
    ELSE Mp4ThumbScan(ss, k + 1)

get_mp4_thumb_type(kind) == Mp4ThumbScan(Streams(kind), 1)

\* get_streams raises: ffprobe is not installed, exits non-zero, or prints no JSON
ProbeRaises(kind) == ~tools.ffprobe \/ kind = "corrupt"

ProbeExc(kind) == IF ~tools.ffprobe THEN "FileNotFoundError" ELSE "CalledProcessError"

\* Mutant: the thumbnail grouping found is not looked at.
HasThumbNever(video_dict) == FALSE

\* Line 169
HasThumb(video_dict) == video_dict.thumb # NoPath

\* Lines 270 and 167-193
ExtractThumbnail ==
    /\ pc = "thumb"
    /\ IF HasThumb(current_video)
       THEN /\ thumb_path' = current_video.thumb
            /\ pc' = "norm"
            /\ UNCHANGED <<fs, container, ops, err>>
       ELSE IF Exists(fs, Sibling(media_path, ".jpg"))
       THEN /\ thumb_path' = Sibling(media_path, ".jpg")
            /\ pc' = "norm"
            /\ UNCHANGED <<fs, container, ops, err>>
       ELSE IF Exists(fs, Sibling(media_path, ".png"))
       THEN /\ thumb_path' = Sibling(media_path, ".png")
            /\ pc' = "norm"
            /\ UNCHANGED <<fs, container, ops, err>>
       ELSE IF SplitExt(media_path) = ".mkv"
       THEN \E kind \in KindsOf(media_path) :
              /\ Seen(media_path, kind)
              /\ IF ProbeRaises(kind)
                 THEN /\ Raise("thumb", "get_streams", ProbeExc(kind))
                      /\ Log({"probe"})
                      /\ UNCHANGED <<fs, thumb_path>>
                 ELSE LET k == get_mkv_thumb_stream(kind) IN
                      IF k = -1
                      THEN /\ Raise("thumb", "get_mkv_thumb_stream", "KeyError")
                           /\ Log({"probe"})
                           /\ UNCHANGED <<fs, thumb_path>>
                      ELSE IF k = 0
                      THEN /\ thumb_path' = NoPath
                           /\ pc' = "norm"
                           /\ Log({"probe"})
                           /\ UNCHANGED <<fs, err>>
                      ELSE LET thumb_type == Attachments(kind)[k].tags["filename"].ext
                               new_path == Sibling(RStripExt(media_path), thumb_type)
                           IN \E dumped \in BOOLEAN :
                                /\ fs' = IF dumped /\ ~Exists(fs, new_path)
                                         THEN FsWrite(fs, new_path,
                                                      Content(media_path, "attachment", "cover"))
                                         ELSE fs
                                /\ thumb_path' = new_path
                                /\ pc' = "norm"
                                /\ Log({"probe", "dump_thumb"})
                                /\ UNCHANGED err
       ELSE IF SplitExt(media_path) = ".mp4"
       THEN \E kind \in KindsOf(media_path) :
              /\ Seen(media_path, kind)
              /\ Log({"probe"})
              /\ IF ProbeRaises(kind)
                 THEN /\ Raise("thumb", "get_streams", ProbeExc(kind))
                      /\ UNCHANGED <<fs, thumb_path>>
                 ELSE LET thumb_type == get_mp4_thumb_type(kind) IN
                      IF thumb_type = ""
                      THEN /\ thumb_path' = NoPath
                           /\ pc' = "norm"
                           /\ UNCHANGED <<fs, err>>
                      ELSE \E exit_ok \in BOOLEAN :
                             IF exit_ok
                             THEN /\ fs' = FsWrite(fs, Sibling(media_path, thumb_type),
                                                   Content(media_path, "attachment", "cover"))
                                  /\ thumb_path' = Sibling(media_path, thumb_type)
                                  /\ pc' = "norm"
                                  /\ UNCHANGED err
                             ELSE /\ Raise("thumb", "dump_mp4_thumb", "CalledProcessError")
                                  /\ UNCHANGED <<fs, thumb_path>>
       ELSE /\ thumb_path' = NoPath
            /\ pc' = "norm"
            /\ UNCHANGED <<fs, container, ops, err>>
    /\ UNCHANGED <<fs_start, tools, done_before, Batch, idx, streams, sidx, Hist>>
    /\ UNCHANGED <<Validation, Pure, answered_yes>>

\* Mutant: the transcode writes onto the file it reads.
NormalizedAsMedia(ext) ==
    IF ext = ".mp4" THEN current_video.media ELSE Path(root_video_path, video_id, "n", ext)

\* Mutant: the output name is built from another identifier than the item's.
NormalizedWrongId(ext) == Path(root_video_path, "a", "n", ext)

\* os.path.join(root_video_path, f"[{video_id}]{ext}")
Normalized(ext) == Path(root_video_path, video_id, "n", ext)

\* Lines 271-281
NormalizeThumbnail ==
    /\ pc = "norm"
    /\ IF thumb_path = NoPath
       THEN /\ pc' = "probe"
            /\ UNCHANGED <<fs, ops, err>>
       ELSE LET new_thumb_path == Normalized(".jpg") IN
            IF SplitExt(thumb_path) # ".jpg"
            THEN \E readable \in BOOLEAN :
                   IF ~Exists(fs, thumb_path) \/ ~readable
                   THEN /\ Raise("thumb", "Image.open",
                                 IF Exists(fs, thumb_path)
                                 THEN "UnidentifiedImageError"
                                 ELSE "FileNotFoundError")
                        /\ UNCHANGED <<fs, ops>>
                   ELSE /\ fs' = FsRemove(
                                   FsWrite(fs, new_thumb_path,
                                           Content(fs[thumb_path].origin, "jpeg",
                                                   fs[thumb_path].part)),
                                   thumb_path)
                        /\ pc' = "probe"
                        /\ Log({"thumb_convert"})
                        /\ UNCHANGED err
            ELSE IF ~Exists(fs, thumb_path)
                 THEN /\ Raise("thumb", "os.rename", "FileNotFoundError")
                      /\ UNCHANGED <<fs, ops>>
                 ELSE /\ fs' = FsRename(fs, thumb_path, new_thumb_path)
                      /\ pc' = "probe"
                      /\ Log({"thumb_rename"})
                      /\ UNCHANGED err
    /\ UNCHANGED <<fs_start, tools, container, done_before, Batch, Locals, Hist>>
    /\ UNCHANGED <<Validation, Pure, answered_yes>>

\* --------------------------------------------------------------- subtitles
\* Line 284
GetStreams ==
    /\ pc = "probe"
    /\ \E kind \in KindsOf(media_path) :
         /\ Seen(media_path, kind)
         /\ IF ProbeRaises(kind)
            THEN /\ Raise("probe", "get_streams", ProbeExc(kind))
                 /\ UNCHANGED <<streams, sidx>>
            ELSE /\ streams' = kind
                 /\ sidx' = 1
                 /\ pc' = "subs"
                 /\ UNCHANGED err
    /\ Log({"probe"})
    /\ UNCHANGED <<fs, fs_start, tools, done_before, Batch, idx, thumb_path, Hist>>
    /\ UNCHANGED <<Validation, Pure, answered_yes>>

\* The position of the next subtitle stream at or after k, 0 when none is left.
RECURSIVE NextSubtitle(_, _)
NextSubtitle(ss, k) ==
    IF k > Len(ss) THEN 0
    ELSE IF ss[k].codec_type = "subtitle" THEN k
    ELSE NextSubtitle(ss, k + 1)

\* Lines 285-293 and 79-95: one pass of the loop up to and including the next
\* subtitle stream. The stream at position k of the list has index k - 1.
SubtitleStep ==
    /\ pc = "subs"
    /\ LET k == NextSubtitle(Streams(streams), sidx) IN
       IF k = 0
       THEN /\ pc' = "transcode"
            /\ UNCHANGED <<fs, sidx, ops, err>>
       ELSE LET stream == Streams(streams)[k] IN
            IF ~stream.has_tags \/ "language" \notin DOMAIN stream.tags
            THEN /\ Raise("subs", "stream[tags][language]", "KeyError")
                 /\ UNCHANGED <<fs, sidx, ops>>
            ELSE LET lang == long2short(stream.tags["language"])
                     sub_path == Normalized(SubExt(lang))
                 IN \E exit_ok \in BOOLEAN :
                      IF exit_ok
                      THEN /\ fs' = FsWrite(fs, sub_path,
                                            Content(media_path, "vtt", stream.tags["language"]))
                           /\ sidx' = k + 1
                           /\ pc' = "subs"
                           /\ Log({"dump_subtitle"})
                           /\ UNCHANGED err
                      ELSE /\ Raise("subs", "dump_subtitle", "CalledProcessError")
                           /\ Log({"dump_subtitle"})
                           /\ UNCHANGED <<fs, sidx>>
    /\ UNCHANGED <<fs_start, tools, container, done_before, Batch, idx, thumb_path, streams, Hist>>
    /\ UNCHANGED <<Validation, Pure, answered_yes>>

\* --------------------------------------------------------------- transcode
\* Lines 295-315. FfmpegProgress raises RuntimeError when ffmpeg exits non-zero;
\* the output file may then hold a part of the stream copy.
\* Mutant: the exit status of the transcoder is not looked at.
TranscodeUnchecked(outcome) == FALSE

\* ffmpeg_progress_yield: a non-zero exit status raises
TranscodeRaises(outcome) == outcome # "ok"

Transcode ==
    /\ pc = "transcode"
    /\ LET current_video_path == current_video.media
           new_video_path == Normalized(".mp4")
       IN \E outcome \in {"ok", "failed", "failed_partial"} :
            /\ fs' = CASE outcome = "ok" ->
                            FsWrite(fs, new_video_path,
                                    Content(current_video_path, "mp4", ""))
                       [] outcome = "failed_partial" ->
                            FsWrite(fs, new_video_path,
                                    Content(current_video_path, "partial", ""))
                       [] OTHER -> fs
            /\ IF TranscodeRaises(outcome)
               THEN Raise("transcode", "run_command_with_progress", "RuntimeError")
               ELSE pc' = "rename" /\ UNCHANGED err
            /\ Log(IF outcome = "ok" THEN {"transcode", "transcoded"} ELSE {"transcode"})
    /\ UNCHANGED <<fs_start, tools, container, done_before, Batch, Locals, Hist>>
    /\ UNCHANGED <<Validation, Pure, answered_yes>>

\* ---------------------------------------------------------------- metadata
\* Lines 317-321
RenameMetadata ==
    /\ pc = "rename"
    /\ LET metadata_path == current_video.metadata
           new_metadata_path == Normalized(".info.json")
       IN IF metadata_path = NoPath
          THEN /\ Raise("rename", "os.rename", "TypeError")
               /\ UNCHANGED <<fs, ops>>
          ELSE \E renamed \in BOOLEAN :
                 IF renamed /\ Exists(fs, metadata_path)
                 THEN /\ fs' = FsRename(fs, metadata_path, new_metadata_path)
                      /\ pc' = "remove"
                      /\ Log({"rename"})
                      /\ UNCHANGED err
                 ELSE /\ Raise("rename", "os.rename", "OSError")
                      /\ UNCHANGED <<fs, ops>>
    /\ UNCHANGED <<fs_start, tools, container, done_before, Batch, Locals, Hist>>
    /\ UNCHANGED <<Validation, Pure, answered_yes>>

\* Lines 323-326
RemoveOriginal ==
    /\ pc = "remove"
    /\ LET current_video_path == current_video.media IN
         fs' = FsRemove(fs, current_video_path)
    /\ Log({"remove"})
    /\ pbar_n' = pbar_n + 1
    /\ completed' = completed \cup {video_id}
    /\ idx' = idx + 1
    /\ pc' = "loop"
    /\ UNCHANGED <<fs_start, tools, container, done_before, Batch, thumb_path, streams, sidx,
                   out, err>>
    /\ UNCHANGED <<Validation, Pure, answered_yes>>

\* ------------------------------------------------------------- environment
\* An external interrupt ends the run wherever it is within an item; the
\* process and its variables are gone.
Interrupt ==
    /\ pc \in ItemSteps
    /\ pc' = "killed"
    /\ categorized' = <<>>
    /\ grouped_videos' = <<>>
    /\ found' = 0
    /\ idx' = 1
    /\ thumb_path' = NoPath
    /\ streams' = "none"
    /\ sidx' = 1
    /\ pbar_n' = 0
    /\ ops' = {}
    /\ out' = {}
    /\ UNCHANGED <<fs, fs_start, tools, container, done_before, completed, err>>
    /\ UNCHANGED <<Validation, Pure, answered_yes>>

\* The operator starts the script again on the same directory.
Rerun ==
    /\ pc \in {"finished", "crashed", "killed"}
    /\ done_before' = done_before \cup completed
    /\ pc' = "start"
    /\ fs_start' = fs
    /\ categorized' = <<>>
    /\ grouped_videos' = <<>>
    /\ found' = 0
    /\ idx' = 1
    /\ thumb_path' = NoPath
    /\ streams' = "none"
    /\ sidx' = 1
    /\ pbar_n' = 0
    /\ ops' = {}
    /\ out' = {}
    /\ completed' = {}
    /\ err' = NoErr
    /\ answered_yes' = TRUE
    /\ UNCHANGED <<fs, tools, container>>
    /\ UNCHANGED <<Validation, Pure>>

\* ------------------------------------------------ check-import-missing-data
Ids(seq) == [k \in 1..Len(seq) |-> seq[k].video_id]

\* check-import-missing-data.py, line 85
Incomplete(video) == video.media = NoPath \/ video.metadata = NoPath

\* check-import-missing-data.py, line 90
Orphan(video) ==
    video.media = NoPath /\ (video.thumb # NoPath \/ video.subtitle # <<>>)

\* check-import-missing-data.py, lines 79-97: the list that is printed
CheckImport ==
    /\ vpc = "idle"
    /\ pc = "start"
    /\ \E order \in WalkOrders(DOMAIN fs) :
         /\ categorized' = categorize_files(order, CHECK_EXT_MAP)
         /\ missing_videos' = Ids(SelectSeq(categorized', Incomplete))
                               \o Ids(SelectSeq(categorized', Orphan))
    /\ vpc' = "check-import"
    /\ UNCHANGED <<fs, fs_start, tools, container, pc, done_before, grouped_videos,
                   found, Locals, Hist, ops, err, invalid_media_files>>
    /\ UNCHANGED <<Pure, answered_yes>>

\* ---------------------------------------------------- validate-media-files
\* validate-media-files.py, lines 71-88: the exit status of ffprobe is 0
validate_media_file(kind) == kind # "corrupt"

HasNoMedia(video) == video.media = NoPath

\* validate-media-files.py, lines 103-129
ValidateMedia ==
    /\ vpc = "idle"
    /\ pc = "start"
    /\ \E order \in WalkOrders(DOMAIN fs) :
         LET grouped == categorize_files(order, CHECK_EXT_MAP)
             with_media == SelectSeq(grouped, LAMBDA v : ~HasNoMedia(v))
         IN /\ categorized' = grouped
            /\ missing_videos' = Ids(SelectSeq(grouped, HasNoMedia))
            /\ IF with_media # <<>> /\ ~tools.ffprobe
               THEN /\ vpc' = "validate-crashed"
                    /\ UNCHANGED <<container, invalid_media_files>>
               ELSE \E kinds \in [ {with_media[k].media : k \in 1..Len(with_media)}
                                     -> KINDS ] :
                      /\ \A m \in DOMAIN kinds : kinds[m] \in KindsOf(m)
                      /\ container' = kinds @@ container
                      /\ invalid_media_files' =
                           Ids(SelectSeq(with_media,
                                         LAMBDA v : ~validate_media_file(kinds[v.media])))
                      /\ vpc' = "validate"
    /\ UNCHANGED <<fs, fs_start, tools, pc, done_before, grouped_videos,
                   found, Locals, Hist, ops, err>>
    /\ UNCHANGED <<Pure, answered_yes>>

\* ------------------------------------------------------- extract_video_id
\* A file name is a sequence of characters. The characters of the model that
\* the class [a-zA-Z0-9_-] holds, and those it does not hold.
IdChars == {"a", "b", "Z", "0", "9", "_", "-"}
OtherChars == {"[", "]", ".", "!"}

\* {11} of the regular expression
TokenLen == 11

\* Mutant: the class of the regular expression lacks the dash.
TokenClassNoDash == IdChars \ {"-"}

\* [a-zA-Z0-9_-] of the regular expression
TokenClass == IdChars

\* The position of the last "." of s, 0 when there is none.
RECURSIVE RFindDot(_, _)
RFindDot(s, i) ==
    IF i = 0 THEN 0
    ELSE IF s[i] = "." THEN i
    ELSE RFindDot(s, i - 1)

\* genericpath._splitext: some character before the last dot is not a dot.
RECURSIVE DotSplits(_, _, _)
DotSplits(s, k, dot) ==
    IF k >= dot THEN FALSE
    ELSE IF s[k] # "." THEN TRUE
    ELSE DotSplits(s, k + 1, dot)

\* os.path.splitext(filename) of a name without directory: <<root, ext>>
splitext(s) ==
    LET dot == RFindDot(s, Len(s)) IN
    IF dot > 0 /\ DotSplits(s, 1, dot)
    THEN <<SubSeq(s, 1, dot - 1), SubSeq(s, dot, Len(s))>>
    ELSE <<s, <<>> >>

\* The characters s[i .. i+n-1] exist and are all of the class.
RECURSIVE MatchClass(_, _, _)
MatchClass(s, i, n) ==
    IF n = 0 THEN TRUE
    ELSE IF i > Len(s) THEN FALSE
    ELSE IF s[i] \notin TokenClass THEN FALSE
    ELSE MatchClass(s, i + 1, n - 1)

\* The regular expression matches at position i of s.
MatchAt(s, i) ==
    /\ i <= Len(s)
    /\ s[i] = "["
    /\ MatchClass(s, i + 1, TokenLen)
    /\ i + TokenLen + 1 <= Len(s)
    /\ s[i + TokenLen + 1] = "]"

\* re.search: group(1) of the leftmost match at or after i, <<>> for None.
RECURSIVE re_search(_, _)
re_search(s, i) ==
    IF i > Len(s) THEN <<>>
    ELSE IF MatchAt(s, i) THEN SubSeq(s, i + 1, i + TokenLen)
    ELSE re_search(s, i + 1)

\* Lines 196-204, on the characters of the name; <<>> for None.
extract_video_id_of(name) ==
    LET base_name == splitext(name)[1] IN re_search(base_name, 1)

\* The call extract_video_id(filename)
ExtractVideoId ==
    /\ npc = "call"
    /\ youtube_id' = extract_video_id_of(filename)
    /\ npc' = "return"
    /\ UNCHANGED <<fs, fs_start, tools, container, pc, done_before, Batch, Locals, Hist,
                   ops, err, filename, regrouped>>
    /\ UNCHANGED <<Validation, listing, answered_yes, Progress, Cover, Dup>>

\* The names the function is called with: up to MaxPieces pieces in a row.
Ten == <<"a", "b", "Z", "0", "9", "_", "-", "a", "b", "Z">>
Token1 == Ten \o <<"0">>
Token2 == [i \in 1..TokenLen |-> "-"]
Bracketed(t) == <<"[">> \o t \o <<"]">>

Pieces ==
    { <<"[">>, <<"]">>, <<"a">>, <<"a", "a">>, <<"!">>, <<".">>, <<"[">> \o Ten,
      Bracketed(Token1), Bracketed(Token2), <<".", "m", "k", "v">> }

RECURSIVE Flatten(_)
Flatten(ps) == IF ps = <<>> THEN <<>> ELSE Head(ps) \o Flatten(Tail(ps))

Names == UNION { { Flatten(ps) : ps \in [1..n -> Pieces] } : n \in 1..MaxPieces }

\* -------------------------------------------------- categorize_files, alone
\* The files a directory may hold when it is grouped: those of the pool, files
\* whose names carry no identifier token, and files of a second directory.
GroupPool ==
    Pool \cup { Path("d1", NoId, "x", e) : e \in {".mkv", ".jpg"} }
         \cup { Path("d2", "a", "t", e) : e \in {".mkv", ".jpg"} }
         \cup { Path("d1", "a", "n", ".de.vtt") }

\* The call categorize_files(input_dir), line 248
Categorize ==
    /\ npc = "call"
    /\ \E order \in WalkOrders(DOMAIN fs) :
         /\ listing' = order
         /\ categorized' = categorize_files(order, EXT_MAP)
    /\ npc' = "return"
    /\ UNCHANGED <<fs, fs_start, tools, container, pc, done_before, grouped_videos, found,
                   Locals, Hist, ops, err, filename, youtube_id, regrouped>>
    /\ UNCHANGED <<Validation, answered_yes, Progress, Cover, Dup>>

\* The same call once more, the directory being as it was.
CategorizeAgain ==
    /\ npc = "return"
    /\ \E order \in WalkOrders(DOMAIN fs) :
         regrouped' = categorize_files(order, EXT_MAP)
    /\ npc' = "again"
    /\ UNCHANGED <<fs, fs_start, tools, container, pc, done_before, Batch,
                   Locals, Hist, ops, err, filename, youtube_id>>
    /\ UNCHANGED <<Validation, listing, answered_yes, Progress, Cover, Dup>>

\* ------------------------------------------------ progress of a transcode
\* The values run_command_with_progress may yield: the library computes them
\* from the time stamps ffmpeg prints and the duration it read, and nothing
\* in lines 310-315 restricts them.
ProgressValues == {0, 40, 100, 120}

\* tqdm.update(n): self.n += n
tqdm_update(n, delta) == n + delta

\* Lines 314-315: one pass of the loop over the values yielded.
ProgressUpdate ==
    /\ npc = "call"
    /\ emitted # <<>>
    /\ LET progress == Head(emitted) IN
         /\ pbar2_n' = tqdm_update(pbar2_n, progress - pbar2_n)
         /\ delivered' = Append(delivered, pbar2_n')
    /\ emitted' = Tail(emitted)
    /\ UNCHANGED <<fs, fs_start, tools, container, pc, done_before, Batch, Locals, Hist,
                   ops, err, filename, youtube_id, npc, regrouped>>
    /\ UNCHANGED <<Validation, listing, answered_yes, Cover, Dup>>

\* Line 314: the generator is exhausted, the loop ends.
ProgressEnd ==
    /\ npc = "call"
    /\ emitted = <<>>
    /\ npc' = "return"
    /\ UNCHANGED <<fs, fs_start, tools, container, pc, done_before, Batch, Locals, Hist,
                   ops, err, filename, youtube_id, regrouped>>
    /\ UNCHANGED <<Validation, listing, answered_yes, Progress, Cover, Dup>>

\* ------------------------------------------------- embedded cover of .mkv
\* The characters of an extension.
Chars(ext) ==
    CASE ext = ".png" -> <<".", "p", "n", "g">>
      [] ext = ".jpg" -> <<".", "j", "p", "g">>
      [] ext = ".ttf" -> <<".", "t", "t", "f">>
      [] OTHER -> <<>>

\* The attachment streams ffprobe may list for a .mkv file: covers, a stream
\* printed without "tags", one whose tags lack "filename", one whose tags
\* lack "mimetype", and an attached font.
AttachmentShapes ==
    { CoverStream(".png"),
      CoverStream(".jpg"),
      Stream("attachment", "none", NoTags),
      Stream("attachment", "none", Tags("mimetype" :> "image")),
      Stream("attachment", "none", Tags("filename" :> FileName("cover", ".png"))),
      Stream("attachment", "none",
             Tags("mimetype" :> "font" @@ "filename" :> FileName("font", ".ttf"))) }

\* The names of the .mkv files the extractor is called with: the identifier
\* token, text after it, and ".mkv".
MediaNames ==
    { Bracketed(Token1) \o tail \o <<".", "m", "k", "v">> :
        tail \in { <<>>, <<"a">>, <<"k">>, <<"a", "m", "v">>, <<"!">>, <<"-", "k">> } }

\* str.rstrip(chars): trailing characters that are in chars are dropped.
RECURSIVE rstrip(_, _)
rstrip(s, chars) ==
    IF s = <<>> THEN s
    ELSE IF s[Len(s)] \in chars THEN rstrip(SubSeq(s, 1, Len(s) - 1), chars)
    ELSE s

\* Lines 149-150: new_path of dump_mpv_thumb.
dump_mpv_thumb_path(file, thumb_type) ==
    LET media_ext == splitext(file)[2] IN
    rstrip(file, { media_ext[i] : i \in 1..Len(media_ext) }) \o thumb_type

\* Line 183: get_mkv_thumb_stream(media_file) on the attachments probed.
ScanCover ==
    /\ npc = "call"
    /\ media_file # <<>>
    /\ LET k == MkvThumbScan(attachments, 1) IN
         IF k = -1
         THEN /\ cover' = [outcome |-> "KeyError", idx |-> 0, path |-> <<>>]
              /\ npc' = "return"
         ELSE IF k = 0
         THEN /\ cover' = [outcome |-> "none", idx |-> 0, path |-> <<>>]
              /\ npc' = "return"
         ELSE /\ cover' = [outcome |-> "found", idx |-> k - 1, path |-> <<>>]
              /\ npc' = "dump"
    /\ UNCHANGED <<fs, fs_start, tools, container, pc, done_before, Batch, Locals, Hist,
                   ops, err, filename, youtube_id, regrouped>>
    /\ UNCHANGED <<Validation, listing, answered_yes, Progress, media_file, attachments, Dup>>

\* Lines 184-185: dump_mpv_thumb(media_file, idx, thumb_type)
DumpCover ==
    /\ npc = "dump"
    /\ LET thumb_type == Chars(attachments[cover.idx + 1].tags["filename"].ext) IN
         cover' = [cover EXCEPT !.outcome = "dumped",
                                !.path = dump_mpv_thumb_path(media_file, thumb_type)]
    /\ npc' = "return"
    /\ UNCHANGED <<fs, fs_start, tools, container, pc, done_before, Batch, Locals, Hist,
                   ops, err, filename, youtube_id, regrouped>>
    /\ UNCHANGED <<Validation, listing, answered_yes, Progress, media_file, attachments, Dup>>

\* --------------------------------------------------- remove-duplicate-files
\* remove-duplicate-files.py, lines 19-25
DUP_EXT_MAP ==
    [media |-> {".mkv", ".webm", ".mp4"},
     metadata |-> {".info.json"},
     thumb |-> {".jpg", ".png", ".webp"},
     subtitle |-> {".vtt"},
     description |-> {".description"}]

\* The identifiers the index may hold: those of the pool and one more.
IndexIds == { p.id : p \in Pool } \cup {"z"}

\* Mutant: every identifier asked for is reported as existing.
fetch_all_ids(index, video_ids) == { video_ids[k] : k \in 1..Len(video_ids) }

\* remove-duplicate-files.py, lines 83-91: the youtube_id of every document
\* the terms query over video_ids matches.
fetch_existing_ids(index, video_ids) ==
    { id \in index : \E k \in 1..Len(video_ids) : video_ids[k] = id }

\* remove-duplicate-files.py, lines 124-129: the paths a record holds, in the
\* order of its keys.
RecordFiles(video) ==
    SelectSeq(<<video.media, video.metadata, video.thumb>>, LAMBDA f : f # NoPath)
      \o video.subtitle
      \o SelectSeq(<<video.description>>, LAMBDA f : f # NoPath)

\* remove-duplicate-files.py, lines 118-129
RECURSIVE FilesToRemove(_, _)
FilesToRemove(videos, existing) ==
    IF videos = <<>> THEN <<>>
    ELSE (IF Head(videos).video_id \in existing THEN RecordFiles(Head(videos)) ELSE <<>>)
           \o FilesToRemove(Tail(videos), existing)

\* remove-duplicate-files.py, lines 94-131: main up to the prompt. The query
\* of the index may fail, which ends the script.
DupMain ==
    /\ npc = "call"
    /\ \E order \in WalkOrders(DOMAIN fs) :
         /\ listing' = order
         /\ categorized' = categorize_files(order, DUP_EXT_MAP)
    /\ grouped_videos' = Filter(categorized')
    /\ found' = UniqueCount(grouped_videos')
    /\ \E reachable \in BOOLEAN :
         IF reachable
         THEN /\ existing_ids_in_index' = fetch_existing_ids(ta_video, Ids(grouped_videos'))
              /\ files_to_remove' = FilesToRemove(grouped_videos', existing_ids_in_index')
              /\ npc' = "prompt"
         ELSE /\ npc' = "crashed"
              /\ UNCHANGED <<existing_ids_in_index, files_to_remove>>
    /\ UNCHANGED <<fs, fs_start, tools, container, pc, done_before, Locals, Hist, ops, err,
                   filename, youtube_id, regrouped>>
    /\ UNCHANGED <<Validation, answered_yes, Progress, Cover, ta_video, futures,
                   failed_deletes>>

\* remove-duplicate-files.py, lines 133-136
DupConfirm ==
    /\ npc = "prompt"
    /\ \E confirmation \in {"y", "Y", "n", "yes", ""} :
         /\ npc' = IF Lower(confirmation) # "y" THEN "aborted" ELSE "submit"
         /\ answered_yes' = (confirmation \in {"y", "Y"})
    /\ UNCHANGED <<fs, fs_start, tools, container, pc, done_before, Batch, Locals, Hist,
                   ops, err, filename, youtube_id, regrouped>>
    /\ UNCHANGED <<Validation, listing, Progress, Cover, Dup>>

\* remove-duplicate-files.py, line 139: the next path is handed to the pool.
DupSubmit ==
    /\ npc = "submit"
    /\ Len(futures) < Len(files_to_remove)
    /\ futures' = Append(futures, "queued")
    /\ UNCHANGED <<fs, fs_start, tools, container, pc, done_before, Batch, Locals, Hist,
                   ops, err, filename, youtube_id, npc, regrouped>>
    /\ UNCHANGED <<Validation, listing, answered_yes, Progress, Cover, ta_video,
                   existing_ids_in_index, files_to_remove, failed_deletes>>

\* remove-duplicate-files.py, lines 33-37: a worker thread runs one of the
\* submitted calls. os.remove raises when the file is not there or may not
\* be removed; the exception is caught and printed.
DeleteFile ==
    /\ \E k \in 1..Len(futures) :
         /\ futures[k] = "queued"
         /\ futures' = [futures EXCEPT ![k] = "done"]
         /\ LET file_path == files_to_remove[k] IN
              \E removable \in BOOLEAN :
                IF removable /\ Exists(fs, file_path)
                THEN /\ fs' = FsRemove(fs, file_path)
                     /\ UNCHANGED failed_deletes
                ELSE /\ failed_deletes' = failed_deletes \cup {file_path}
                     /\ UNCHANGED fs
    /\ UNCHANGED <<fs_start, tools, container, pc, done_before, Batch, Locals, Hist,
                   ops, err, filename, youtube_id, npc, regrouped>>
    /\ UNCHANGED <<Validation, listing, answered_yes, Progress, Cover, ta_video,
                   existing_ids_in_index, files_to_remove>>

\* remove-duplicate-files.py, lines 138-140: leaving the with block waits for
\* every submitted call.
DupJoin ==
    /\ npc = "submit"
    /\ Len(futures) = Len(files_to_remove)
    /\ \A k \in 1..Len(futures) : futures[k] = "done"
    /\ npc' = "return"
    /\ UNCHANGED <<fs, fs_start, tools, container, pc, done_before, Batch, Locals, Hist,
                   ops, err, filename, youtube_id, regrouped>>
    /\ UNCHANGED <<Validation, listing, answered_yes, Progress, Cover, Dup>>

\* ------------------------------------------------------------------- specs
Next ==
    \/ Preflight
    \/ Confirm
    \/ Confirm2
    \/ Main
    \/ LoopHead
    \/ ExtractThumbnail
    \/ NormalizeThumbnail
    \/ GetStreams
    \/ SubtitleStep
    \/ Transcode
    \/ RenameMetadata
    \/ RemoveOriginal
    \/ Interrupt
    \/ Rerun

\* The conversion script, run and run again on one directory.
Spec == Init /\ [][Next]_vars

NextCheck ==
    \/ CheckImport
    \/ ValidateMedia

\* One of the two validation scripts, run on a directory.
SpecCheck == Init /\ [][NextCheck]_vars

\* No script is running and the directory is empty.
Idle ==
    /\ fs = <<>>
    /\ fs_start = <<>>
    /\ tools = [ffmpeg |-> TRUE, ffprobe |-> TRUE]
    /\ container = <<>>
    /\ pc = "start"
    /\ done_before = {}
    /\ categorized = <<>>
    /\ grouped_videos = <<>>
    /\ idx = 1
    /\ thumb_path = NoPath
    /\ streams = "none"
    /\ sidx = 1
    /\ pbar_n = 0
    /\ found = 0
    /\ ops = {}
    /\ out = {}
    /\ completed = {}
    /\ err = NoErr
    /\ vpc = "idle"
    /\ missing_videos = <<>>
    /\ invalid_media_files = <<>>

InitNames ==
    /\ Idle
    /\ filename \in Names
    /\ youtube_id = <<>>
    /\ npc = "call"
    /\ regrouped = <<>>
    /\ listing = <<>>
    /\ answered_yes = TRUE
    /\ NoProgress
    /\ NoDump
    /\ NoDup

InitGroup ==
    /\ \E S \in { T \in SUBSET GroupPool : Cardinality(T) <= MaxFiles } :
         fs = [p \in S |-> Content(p, "orig", "")]
    /\ fs_start = fs
    /\ tools = [ffmpeg |-> TRUE, ffprobe |-> TRUE]
    /\ container = <<>>
    /\ pc = "main"
    /\ done_before = {}
    /\ categorized = <<>>
    /\ grouped_videos = <<>>
    /\ idx = 1
    /\ thumb_path = NoPath
    /\ streams = "none"
    /\ sidx = 1
    /\ pbar_n = 0
    /\ found = 0
    /\ ops = {}
    /\ out = {}
    /\ completed = {}
    /\ err = NoErr
    /\ vpc = "idle"
    /\ missing_videos = <<>>
    /\ invalid_media_files = <<>>
    /\ filename = <<>>
    /\ youtube_id = <<>>
    /\ npc = "call"
    /\ regrouped = <<>>
    /\ listing = <<>>
    /\ answered_yes = TRUE
    /\ NoProgress
    /\ NoDump
    /\ NoDup

NextGroup ==
    \/ Categorize
    \/ CategorizeAgain

\* categorize_files, called on a directory and called again.
SpecGroup == InitGroup /\ [][NextGroup]_vars

NextNames == ExtractVideoId

\* extract_video_id, called once with a name.
SpecNames == InitNames /\ [][NextNames]_vars

InitProgress ==
    /\ Idle
    /\ filename = <<>>
    /\ youtube_id = <<>>
    /\ npc = "call"
    /\ regrouped = <<>>
    /\ listing = <<>>
    /\ answered_yes = TRUE
    /\ emitted \in UNION { [1..n -> ProgressValues] : n \in 0..MaxProgress }
    /\ delivered = <<>>
    /\ pbar2_n = 0
    /\ NoDump
    /\ NoDup

NextProgress ==
    \/ ProgressUpdate
    \/ ProgressEnd

\* The progress loop of one transcode, for a sequence of values yielded.
SpecProgress == InitProgress /\ [][NextProgress]_vars

InitCover ==
    /\ Idle
    /\ filename = <<>>
    /\ youtube_id = <<>>
    /\ npc = "call"
    /\ regrouped = <<>>
    /\ listing = <<>>
    /\ answered_yes = TRUE
    /\ NoProgress
    /\ media_file \in MediaNames
    /\ attachments \in UNION { [1..n -> AttachmentShapes] : n \in 0..MaxAttachments }
    /\ cover = NoCover
    /\ NoDup

NextCover ==
    \/ ScanCover
    \/ DumpCover

\* The cover extraction of one .mkv file, for the attachments ffprobe lists.
SpecCover == InitCover /\ [][NextCover]_vars

InitDup ==
    /\ \E S \in { T \in SUBSET GroupPool : Cardinality(T) <= MaxFiles } :
         fs = [p \in S |-> Content(p, "orig", "")]
    /\ fs_start = fs
    /\ tools = [ffmpeg |-> TRUE, ffprobe |-> TRUE]
    /\ container = <<>>
    /\ pc = "start"
    /\ done_before = {}
    /\ categorized = <<>>
    /\ grouped_videos = <<>>
    /\ idx = 1
    /\ thumb_path = NoPath
    /\ streams = "none"
    /\ sidx = 1
    /\ pbar_n = 0
    /\ found = 0
    /\ ops = {}
    /\ out = {}
    /\ completed = {}
    /\ err = NoErr
    /\ vpc = "idle"
    /\ missing_videos = <<>>
    /\ invalid_media_files = <<>>
    /\ filename = <<>>
    /\ youtube_id = <<>>
    /\ npc = "call"
    /\ regrouped = <<>>
    /\ listing = <<>>
    /\ answered_yes = TRUE
    /\ NoProgress
    /\ NoDump
    /\ ta_video \in SUBSET IndexIds
    /\ existing_ids_in_index = {}
    /\ files_to_remove = <<>>
    /\ futures = <<>>
    /\ failed_deletes = {}

NextDup ==
    \/ DupMain
    \/ DupConfirm
    \/ DupSubmit
    \/ DeleteFile
    \/ DupJoin

\* remove-duplicate-files.py, run on a directory against an index.
SpecDup == InitDup /\ [][NextDup]_vars

\* ----------------------------------------------------------------- claims
VideoIds == { p.id : p \in Pool }

\* The files of one identifier, with their contents.
FilesOf(f, id) == [p \in { q \in DOMAIN f : q.id = id } |-> f[p]]

NoOps(id) == \A o \in ops : o.id # id

Untouched(id) == NoOps(id) /\ FilesOf(fs, id) = FilesOf(fs_start, id)

Listed(id) == \E k \in 1..Len(grouped_videos) : grouped_videos[k].video_id = id

AllListedPrinted ==
    \A k \in 1..Len(grouped_videos) : grouped_videos[k].video_id \in out

\* The run ended on the exception a missing binary raises.
MissingBinary == ~tools.ffprobe /\ err.exc = "FileNotFoundError"

\* C1: a per-item error is caught and the items that follow are still
\* processed; only a missing external binary ends the batch early. Stated at
\* the end of a run: unless a binary is missing, every item of the list was
\* taken up by the loop.
C1_FailureIsolation ==
    (pc = "crashed" /\ ~MissingBinary) => AllListedPrinted

\* C2: the original media file is removed only after its transcode exited
\* successfully and the metadata rename succeeded; when the transcode or an
\* earlier step of the item raises, the original is still there, unchanged,
\* and nothing was deleted for the item.
C2_RemoveOnlyAfterSuccess ==
    /\ \A id \in VideoIds :
         Op(id, "remove") \in ops =>
           Op(id, "transcoded") \in ops /\ Op(id, "rename") \in ops
    /\ (pc = "crashed" /\ err.step \in {"thumb", "probe", "subs", "transcode"}) =>
         /\ Exists(fs, media_path)
         /\ fs[media_path] = fs_start[media_path]
         /\ Op(err.id, "remove") \notin ops

\* C2 witness: one item was converted and removed, and the transcode of a
\* later item failed.
C2_Witness ==
    /\ pc = "crashed"
    /\ err.step = "transcode"
    /\ completed # {}

\* An identifier whose only container, when the run starts, is an .mp4 file.
Mp4Only(id) ==
    /\ \E p \in DOMAIN fs_start : p.id = id /\ p.ext = ".mp4"
    /\ \A p \in DOMAIN fs_start : p.id = id => p.ext \notin {".mkv", ".webm"}

HasMedia(f, id) ==
    \E p \in DOMAIN f :
      /\ p.id = id
      /\ p.ext \in {".mkv", ".webm", ".mp4"}
      /\ f[p].form \in {"orig", "mp4"}

\* C4, first half: an item that reached Done in an earlier run is left alone
\* by every later run.
DoneLeftAlone == \A id \in done_before : Untouched(id)

\* C4, second half: no run, interrupted or not, loses the only media copy of
\* an item.
MediaCopyKept == \A id \in VideoIds : HasMedia(fs_start, id) => HasMedia(fs, id)

\* C4: re-running is idempotent for completed items, and a run after an
\* interrupt never loses an item's only media copy.
C4_RerunIdempotent == DoneLeftAlone /\ MediaCopyKept

\* C5: an item with a thumbnail or subtitle file but no media file is an
\* orphan, never in the list the conversion loop iterates, and the run has no
\* effect on it.
C5_OrphanUntouched ==
    \A k \in 1..Len(categorized) :
      Orphan(categorized[k]) =>
        /\ ~Listed(categorized[k].video_id)
        /\ Untouched(categorized[k].video_id)

\* C5 witness: the run grouped an orphan, converted another item and finished.
C5_Witness ==
    /\ pc = "finished"
    /\ completed # {}
    /\ \E k \in 1..Len(categorized) : Orphan(categorized[k])

\* C6: every orphan found by grouping is reported by the run that found it.
C6_OrphanReported ==
    pc = "finished" =>
      \A k \in 1..Len(categorized) :
        Orphan(categorized[k]) => categorized[k].video_id \in out

\* C7: the validator lists each problematic identifier exactly once, and the
\* count it prints is the number of items that are not Usable (no media).
C7_ReportedOnce ==
    vpc \in {"check-import", "validate"} =>
      /\ \A i, j \in 1..Len(missing_videos) :
           missing_videos[i] = missing_videos[j] => i = j
      /\ Len(missing_videos) =
           Cardinality({ k \in 1..Len(categorized) : HasNoMedia(categorized[k]) })

\* C8: a failure of the thumbnail extraction or of one subtitle stream does
\* not fail the item: the run goes on to the other streams and the transcode.
C8_ExtractionFailureSoft ==
    ~(pc = "crashed" /\ err.call \in {"Image.open", "dump_subtitle"})

\* C9: when the stream probe of an item fails, the transcode of that item is
\* still attempted.
C9_ProbeFailureTranscodes ==
    (pc = "crashed" /\ tools.ffprobe /\ err.call = "get_streams") =>
      Op(err.id, "transcode") \in ops

\* C10: when the probe or the transcode binary is missing the run aborts
\* before any item is processed: no file was created, renamed, converted or
\* deleted when it aborts.
C10_PreflightAbort ==
    (pc \in {"fatal", "crashed"} /\ (~tools.ffmpeg \/ MissingBinary)) =>
      fs = fs_start

\* The bracketed token of the regular expression starts at position i of s.
IsTokenAt(s, i) ==
    /\ i + TokenLen + 1 <= Len(s)
    /\ s[i] = "["
    /\ s[i + TokenLen + 1] = "]"
    /\ \A j \in 1..TokenLen : s[i + j] \in IdChars

TokenStarts(s) == { i \in 1..Len(s) : IsTokenAt(s, i) }

\* The first bracketed token of s, <<>> when s holds none.
FirstToken(s) ==
    IF TokenStarts(s) = {} THEN <<>>
    ELSE LET i == CHOOSE m \in TokenStarts(s) : \A n \in TokenStarts(s) : m <= n
         IN SubSeq(s, i + 1, i + TokenLen)

\* C11 as stated: for every file name that holds a bracketed 11-character
\* token, extract_video_id returns the first such token; for every other name
\* it returns nothing.
C11_TokenOfName ==
    npc = "return" => youtube_id = FirstToken(filename)

\* C11 amended: extract_video_id returns the first bracketed 11-character
\* token of the base name, the name without the extension os.path.splitext
\* splits off, and nothing when the base name holds no such token.
C11_TokenOfBaseName ==
    npc = "return" => youtube_id = FirstToken(splitext(filename)[1])

\* C11 witness: the call returned the first of two tokens of a name.
C11_Witness ==
    /\ npc = "return"
    /\ Cardinality(TokenStarts(splitext(filename)[1])) = 2
    /\ youtube_id = Token1

\* The paths a record holds, in any category.
PathsOf(rec) ==
    ({rec.media, rec.metadata, rec.thumb} \ {NoPath})
      \cup { rec.subtitle[k] : k \in 1..Len(rec.subtitle) }

\* The identifiers the regular expression finds among the files of f.
IdsFound(f) == { extract_video_id(p) : p \in DOMAIN f } \ {NoId}

\* C12: grouping yields exactly one record per distinct identifier found
\* under the root: no two records share an id; every file whose name carries a
\* token goes to the record of that token (a subtitle is in its list, any
\* other category of the file is filled in that record) and to no other; a
\* file without a token creates no record and is in no record.
C12_OneRecordPerId ==
    npc = "return" =>
      /\ \A i, j \in 1..Len(categorized) :
           categorized[i].video_id = categorized[j].video_id => i = j
      /\ { categorized[k].video_id : k \in 1..Len(categorized) } = IdsFound(fs)
      /\ \A k \in 1..Len(categorized) :
           \A p \in PathsOf(categorized[k]) :
             /\ Exists(fs, p)
             /\ extract_video_id(p) = categorized[k].video_id
      /\ \A p \in DOMAIN fs :
           extract_video_id(p) # NoId =>
             \E k \in 1..Len(categorized) :
               /\ categorized[k].video_id = extract_video_id(p)
               /\ \A c \in Categories(p, EXT_MAP) :
                    IF c = "subtitle"
                    THEN \E n \in 1..Len(categorized[k].subtitle) :
                           categorized[k].subtitle[n] = p
                    ELSE categorized[k][c] # NoPath

\* C12 witness: a directory with files of two identifiers and a file without
\* a token was grouped.
C12_Witness ==
    /\ npc = "return"
    /\ Len(categorized) = 2
    /\ \E p \in DOMAIN fs : extract_video_id(p) = NoId

\* C13: grouping the unchanged directory once more yields the same set of
\* records, with the same path in every category.
C13_GroupingIdempotent ==
    npc = "again" =>
      { regrouped[k] : k \in 1..Len(regrouped) }
        = { categorized[k] : k \in 1..Len(categorized) }

\* The category-extension table of the specification.
CategoryTable ==
    [media |-> {".mkv", ".webm", ".mp4"},
     metadata |-> {".info.json"},
     thumb |-> {".jpg", ".png", ".webp"},
     subtitle |-> {".vtt"}]

\* The files of f that carry the identifier and end in an extension of exts.
Candidates(f, id, exts) ==
    { p \in DOMAIN f : extract_video_id(p) = id /\ \E e \in exts : EndsWith(p, e) }

\* C14: the conversion script assigns files to categories by the table: a
\* record's media, metadata and thumb are files of its identifier with an
\* extension the table gives for the category, whenever there is one (so an
\* item whose only container is an .mp4 file has that file as media), and its
\* subtitles are the .vtt files of the identifier.
C14_CategoryTable ==
    npc = "return" =>
      \A k \in 1..Len(categorized) :
        LET rec == categorized[k] IN
        /\ \A c \in {"media", "metadata", "thumb"} :
             LET cand == Candidates(fs, rec.video_id, CategoryTable[c]) IN
             IF cand = {} THEN rec[c] = NoPath ELSE rec[c] \in cand
        /\ { rec.subtitle[n] : n \in 1..Len(rec.subtitle) }
             = Candidates(fs, rec.video_id, CategoryTable["subtitle"])

\* extract_thumbnail returned, or raised.
ThumbnailStep == pc = "thumb" /\ pc' \in {"norm", "crashed"}

\* C15: if the item's thumb is set, extract_thumbnail returns it and runs no
\* probe and no extraction; otherwise it returns the sibling of the media file
\* with suffix .jpg if that exists, else the one with suffix .png if that
\* exists; only when none of the three is there is the container inspected.
C15_ThumbnailPrecedence ==
    [][ThumbnailStep =>
         LET jpg == Sibling(media_path, ".jpg")
             png == Sibling(media_path, ".png")
             quiet == pc' = "norm" /\ ops' = ops /\ fs' = fs
         IN IF current_video.thumb # NoPath
            THEN thumb_path' = current_video.thumb /\ quiet
            ELSE IF Exists(fs, jpg) THEN thumb_path' = jpg /\ quiet
            ELSE IF Exists(fs, png) THEN thumb_path' = png /\ quiet
            ELSE TRUE]_vars

\* C15 witness: the thumbnail of grouping was returned although a second image
\* file of the item lies beside the media file, and nothing was probed.
C15_Witness ==
    /\ pc = "norm"
    /\ current_video.thumb # NoPath
    /\ thumb_path = current_video.thumb
    /\ NoOps(video_id)
    /\ Exists(fs, Sibling(media_path, ".jpg"))
    /\ Exists(fs, Sibling(media_path, ".png"))

\* C16: when a thumbnail was found or extracted for an item and the step has
\* completed, [<id>].jpg exists in the directory of the media file, the
\* thumbnail is gone from its old path (unless that is the path of
\* [<id>].jpg), a source that is no .jpg was re-encoded, and a .jpg source was
\* only renamed: the file holds what the source held.
C16_ThumbnailNormalized ==
    (pc = "probe" /\ thumb_path # NoPath) =>
      LET new_thumb_path == Path(media_path.dir, video_id, "n", ".jpg") IN
      /\ Exists(fs, new_thumb_path)
      /\ thumb_path # new_thumb_path => ~Exists(fs, thumb_path)
      /\ IF SplitExt(thumb_path) # ".jpg"
         THEN fs[new_thumb_path].form = "jpeg"
         ELSE fs[new_thumb_path] = fs_start[thumb_path]

\* C16 witness: the cover of a container was dumped beside the media file and
\* re-encoded to [<id>].jpg.
C16_Witness ==
    /\ pc = "probe"
    /\ thumb_path # NoPath
    /\ Op(video_id, "dump_thumb") \in ops
    /\ Exists(fs, Normalized(".jpg"))
    /\ fs[Normalized(".jpg")].part = "cover"

\* The subtitle streams of the container probed for the current item.
SubtitleStreams == SelectSeq(Streams(streams), LAMBDA st : st.codec_type = "subtitle")

\* The sidecar files that hold subtitles extracted from the current media file.
Sidecars ==
    { p \in DOMAIN fs :
        /\ p.dir = media_path.dir
        /\ p.id = video_id
        /\ p.stem = "n"
        /\ SplitExt(p) = ".vtt"
        /\ fs[p].form = "vtt"
        /\ fs[p].origin = media_path }

\* C17: when the subtitle loop of an item is through, every subtitle stream
\* of the container has its sidecar [<id>].<lang>.vtt, lang being the short
\* form of the stream's language tag and the file holding that stream, and a
\* container with N subtitle streams has yielded N sidecar files.
C17_SidecarPerStream ==
    pc = "transcode" =>
      /\ \A k \in 1..Len(SubtitleStreams) :
           LET lang == long2short(SubtitleStreams[k].tags["language"])
               sub_path == Path(media_path.dir, video_id, "n", SubExt(lang))
           IN /\ sub_path \in Sidecars
              /\ fs[sub_path].part = SubtitleStreams[k].tags["language"]
      /\ Cardinality(Sidecars) = Len(SubtitleStreams)

\* The files of the identifier that the current run created or changed.
OutputsOf(id) ==
    { p \in DOMAIN fs : p.id = id /\ (p \notin DOMAIN fs_start \/ fs[p] # fs_start[p]) }

\* C18: when an item has completed, the directory of its original media file
\* holds [<id>].mp4, made from that file, and [<id>].info.json; the original
\* media file is gone, and so is the metadata file under its old name; and the
\* run has written every output of the item into that directory.
C18_DonePostcondition ==
    \A k \in 1..Len(grouped_videos) :
      LET v == grouped_videos[k]
          d == v.media.dir
          new_video_path == Path(d, v.video_id, "n", ".mp4")
          new_metadata_path == Path(d, v.video_id, "n", ".info.json")
      IN v.video_id \in completed =>
           /\ Exists(fs, new_video_path)
           /\ fs[new_video_path] = Content(v.media, "mp4", "")
           /\ Exists(fs, new_metadata_path)
           /\ ~Exists(fs, v.media)
           /\ v.metadata # new_metadata_path => ~Exists(fs, v.metadata)
           /\ \A p \in OutputsOf(v.video_id) : p.dir = d

\* C18 witness: an item whose metadata file lay in another directory than its
\* media file has completed.
C18_Witness ==
    \E k \in 1..Len(grouped_videos) :
      /\ grouped_videos[k].video_id \in completed
      /\ grouped_videos[k].metadata.dir # grouped_videos[k].media.dir

\* The outcome of an item when the batch has ended. The loop passes an item
\* by completing it or by skipping it (line 263); an exception ends the run at
\* the item it was raised for.
Success(id) == id \in completed

Failed(id) == pc = "crashed" /\ err.id = id

Skipped(id) ==
    \E k \in 1..Len(grouped_videos) :
      /\ grouped_videos[k].video_id = id
      /\ k < idx
      /\ id \notin completed

\* C19: when the batch ends, every grouped item has one result, Success,
\* Skipped or Failed (so that the three counts add up to the number of
\* items), and an item without media file is Skipped and was not transcoded.
C19_ResultAccounting ==
    pc \in {"finished", "crashed"} =>
      \A k \in 1..Len(categorized) :
        LET id == categorized[k].video_id IN
        /\ Success(id) \/ Skipped(id) \/ Failed(id)
        /\ HasNoMedia(categorized[k]) =>
             Skipped(id) /\ Op(id, "transcode") \notin ops

\* The step of the per-item pipeline a position belongs to: thumbnail
\* extraction, subtitle extraction, transcoding, metadata rename, removal.
ItemRank(p) ==
    CASE p \in {"thumb", "norm"} -> 1
      [] p \in {"probe", "subs"} -> 2
      [] p = "transcode" -> 3
      [] p = "rename" -> 4
      [] OTHER -> 5

\* Within one item the steps follow one another in the order of the pipeline,
\* none is entered again, an item starts at the thumbnail step, and the next
\* item is taken up only from the end of the item before or from a skip.
StepsInOrder ==
    /\ (pc \in ItemSteps /\ pc' \in ItemSteps) =>
         idx' = idx /\ ItemRank(pc') \in {ItemRank(pc), ItemRank(pc) + 1}
    /\ (pc \notin ItemSteps /\ pc' \in ItemSteps) => pc = "loop" /\ pc' = "thumb"
    /\ idx' = idx + 1 => pc \in {"remove", "loop"}

\* An item that failed performs no further step: the run has ended, and only
\* a new run follows.
FailedAbsorbing == pc = "crashed" => pc' \in {"crashed", "start"}

\* With both binaries installed, an item fails only in the transcode or in the
\* metadata rename (the validation of the item, line 261, raises nothing).
FailedOnlyFrom ==
    (pc' = "crashed" /\ tools.ffprobe) => pc \in {"crashed", "transcode", "rename"}

\* C20: each converted item goes through thumbnail extraction, subtitle
\* extraction, transcoding, metadata rename and removal of the original in
\* this order, each at most once; Failed is absorbing and entered only from
\* Validating, Transcoding or RenamingMetadata; the steps of one item finish
\* before the first step of the next item.
C20_ItemStateMachine ==
    [][StepsInOrder /\ FailedAbsorbing /\ FailedOnlyFrom]_vars

\* C21: during the transcode of one item the values delivered to the
\* progress bar never decrease and lie in [0, 100], whatever the transcoder
\* emits.
C21_ProgressMonotone ==
    /\ \A i \in 1..Len(delivered) : delivered[i] >= 0 /\ delivered[i] <= 100
    /\ \A i, j \in 1..Len(delivered) : i <= j => delivered[i] <= delivered[j]

\* The metadata rename of the current item raised.
RenameFailed == pc = "crashed" /\ err.step = "rename"

\* What the item had produced is kept and its original is still there.
DerivedRetained ==
    RenameFailed =>
      /\ Exists(fs, Path(media_path.dir, video_id, "n", ".mp4"))
      /\ fs[Path(media_path.dir, video_id, "n", ".mp4")].form = "mp4"
      /\ Exists(fs, media_path)
      /\ \A p \in DOMAIN fs_start : p.id = video_id /\ p.stem = "n" => Exists(fs, p)

\* C22: when the metadata rename of an item fails, also because the item has
\* no metadata file, the item is failed, the derived files it produced are
\* kept, the original media file is not deleted, and the items that follow
\* are still processed.
C22_RenameFailure ==
    /\ DerivedRetained
    /\ RenameFailed => Failed(video_id) /\ AllListedPrinted

\* The positions of the listing whose file carries the identifier and
\* matches the category.
MatchesOf(id, c) ==
    { i \in 1..Len(listing) :
        extract_video_id(listing[i]) = id /\ c \in Categories(listing[i], EXT_MAP) }

\* The last file of the listing that matches, NoPath when none does.
LastMatch(id, c) ==
    IF MatchesOf(id, c) = {} THEN NoPath
    ELSE listing[CHOOSE i \in MatchesOf(id, c) : \A j \in MatchesOf(id, c) : j <= i]

\* The categories of a record that hold the path.
HeldIn(rec, p) ==
    { c \in {"media", "metadata", "thumb"} : rec[c] = p }
      \cup (IF \E n \in 1..Len(rec.subtitle) : rec.subtitle[n] = p
            THEN {"subtitle"} ELSE {})

\* C23: for one identifier the path recorded for media, metadata and thumb is
\* that of the last matching file in traversal order; the subtitle list holds
\* every .vtt file of the identifier once, in traversal order; and no file is
\* recorded in more than one category.
C23_LastWriteWins ==
    npc = "return" =>
      \A k \in 1..Len(categorized) :
        LET rec == categorized[k] IN
        /\ \A c \in {"media", "metadata", "thumb"} : rec[c] = LastMatch(rec.video_id, c)
        /\ rec.subtitle =
             SelectSeq(listing,
                       LAMBDA f : /\ extract_video_id(f) = rec.video_id
                                  /\ "subtitle" \in Categories(f, EXT_MAP))
        /\ \A p \in DOMAIN fs : Cardinality(HeldIn(rec, p)) <= 1

\* C23 witness: two media files of one identifier were listed, the record
\* holds the one listed last, and a subtitle was appended.
C23_Witness ==
    /\ npc = "return"
    /\ \E k \in 1..Len(categorized) :
         /\ Cardinality(MatchesOf(categorized[k].video_id, "media")) = 2
         /\ categorized[k].media = LastMatch(categorized[k].video_id, "media")
         /\ Len(categorized[k].subtitle) = 1

\* An attachment whose tags contain mimetype and whose filename tag starts
\* with "cover".
Qualifies(stream) ==
    /\ stream.has_tags
    /\ "mimetype" \in DOMAIN stream.tags
    /\ "filename" \in DOMAIN stream.tags
    /\ stream.tags["filename"].base = "cover"

\* The position of the first qualifying attachment, 0 when there is none.
FirstQualifying ==
    IF \E k \in 1..Len(attachments) : Qualifies(attachments[k])
    THEN CHOOSE k \in 1..Len(attachments) :
           /\ Qualifies(attachments[k])
           /\ \A j \in 1..(k - 1) : ~Qualifies(attachments[j])
    ELSE 0

\* C24: the cover extraction of a .mkv file ends with the first qualifying
\* attachment dumped to the media path without its extension followed by the
\* extension of the attachment's filename tag, and with no cover when no
\* attachment qualifies; it does not fail on attachments that lack the tags.
C24_CoverDump ==
    (npc = "return" /\ cover.outcome # "pending") =>
      IF FirstQualifying = 0
      THEN cover.outcome = "none"
      ELSE /\ cover.outcome = "dumped"
           /\ cover.idx = FirstQualifying - 1
           /\ cover.path =
                splitext(media_file)[1]
                  \o Chars(attachments[FirstQualifying].tags["filename"].ext)

\* The container of the kind holds no qualifying cover attachment.
NoCoverIn(kind) ==
    \A k \in 1..Len(Attachments(kind)) : ~Qualifies(Attachments(kind)[k])

\* extract_thumbnail ran for an item with no thumbnail on disk and none in
\* the container: a .webm, or a .mkv probed to hold no qualifying cover.
NoThumbnailStep ==
    /\ ThumbnailStep
    /\ tools.ffprobe
    /\ current_video.thumb = NoPath
    /\ ~Exists(fs, Sibling(media_path, ".jpg"))
    /\ ~Exists(fs, Sibling(media_path, ".png"))
    /\ \/ SplitExt(media_path) = ".webm"
       \/ /\ SplitExt(media_path) = ".mkv"
          /\ media_path \in DOMAIN container'
          /\ NoCoverIn(container'[media_path])

\* C25: an item with no thumbnail on disk and none to extract from its
\* container proceeds without one: extract_thumbnail returns nothing and
\* creates no file, and the item goes on to the stream probe with the
\* directory unchanged.
C25_NoThumbnailProceeds ==
    [][/\ NoThumbnailStep => (pc' = "norm" /\ thumb_path' = NoPath /\ fs' = fs)
       /\ (pc = "norm" /\ thumb_path = NoPath /\ pc' \in {"probe", "crashed"})
            => (pc' = "probe" /\ fs' = fs)]_vars

\* C26: the list the loop iterates holds no two items with the same video id,
\* the number announced equals the number of loop iterations, and the batch
\* progress counter counts exactly the items that completed conversion, none
\* of which was skipped or failed.
C26_OncePerBatch ==
    /\ \A i, j \in 1..Len(grouped_videos) :
         grouped_videos[i].video_id = grouped_videos[j].video_id => i = j
    /\ pc \in ({"loop", "finished", "crashed"} \cup ItemSteps) =>
         /\ found = Len(grouped_videos)
         /\ pbar_n = Cardinality(completed)
         /\ completed \subseteq out
         /\ \A k \in 1..Len(grouped_videos) :
              (Skip(grouped_videos[k]) \/ Failed(grouped_videos[k].video_id))
                => grouped_videos[k].video_id \notin completed
    /\ pc = "finished" => Cardinality(out) = found

\* C26 witness: of two items one completed and advanced the counter, the other
\* failed and did not.
C26_Witness ==
    /\ pc = "crashed"
    /\ Len(grouped_videos) = 2
    /\ found = 2
    /\ pbar_n = 1
    /\ Cardinality(completed) = 1
    /\ err.id \notin completed

\* C27: no file is touched unless both prompts were answered "y" or "Y": with
\* another answer to either prompt the script is over before grouping, and
\* up to the second answer no file was created, renamed or deleted.
C27_ConfirmedOnly ==
    /\ ~answered_yes => pc = "aborted"
    /\ pc \in {"start", "confirm", "confirm2", "aborted"} =>
         /\ fs = fs_start
         /\ categorized = <<>>
         /\ ops = {}

\* C27 witness: a prompt was answered otherwise over a directory with files,
\* and the script is over.
C27_Witness ==
    /\ pc = "aborted"
    /\ ~answered_yes
    /\ DOMAIN fs # {}
    /\ fs = fs_start

\* The file [<id>].mp4 beside the media file of the current item.
OutputPath == Path(media_path.dir, video_id, "n", ".mp4")

\* C28: for an item at the transcode step or past it, the transcode output
\* path differs from the source media path; the transcode left the output
\* beside the source, and the outputs of completed items are still there
\* after the originals were removed.
C28_OutputNotSource ==
    /\ pc \in {"transcode", "rename", "remove"} => OutputPath # media_path
    /\ pc \in {"rename", "remove"} =>
         /\ Exists(fs, OutputPath)
         /\ fs[OutputPath] = Content(media_path, "mp4", "")
         /\ Exists(fs, media_path)
    /\ \A id \in completed :
         \E p \in DOMAIN fs :
           /\ p.id = id /\ p.stem = "n" /\ p.ext = ".mp4"
           /\ fs[p].form = "mp4"
           /\ ~Exists(fs, fs[p].origin)

\* C28 witness: an item completed, its original is gone and its output is in
\* the directory.
C28_Witness ==
    /\ pc = "loop"
    /\ completed # {}
    /\ \E p \in DOMAIN fs :
         /\ p.ext = ".mp4" /\ p.id \in completed
         /\ fs[p].form = "mp4"
         /\ ~Exists(fs, fs[p].origin)

\* A file that carries an identifier token and a .mkv or .webm suffix.
SourceContainer(p) == extract_video_id(p) # NoId /\ SplitExt(p) \in {".mkv", ".webm"}

\* C29: after a batch that finished without error no source container
\* remains in the directory, also when one identifier had more than one.
C29_NoContainerLeft ==
    pc = "finished" => \A p \in DOMAIN fs : ~SourceContainer(p)

\* The files the run has removed.
Deleted == DOMAIN fs_start \ DOMAIN fs

\* The path is held by a grouped record that has a media file and whose video
\* id the index returned.
OfDuplicate(p) ==
    \E k \in 1..Len(categorized) :
      /\ categorized[k].media # NoPath
      /\ categorized[k].video_id \in existing_ids_in_index
      /\ \E n \in 1..Len(RecordFiles(categorized[k])) : RecordFiles(categorized[k])[n] = p

\* C30: a file is deleted only after the prompt was answered y and only if a
\* grouped record with a media file whose id the index returned holds it;
\* files of identifiers the index does not hold are never deleted; no path
\* is submitted twice; and when the script is over every submitted path
\* whose delete did not fail is gone.
C30_DeleteOnlyDuplicates ==
    /\ Deleted # {} => (answered_yes /\ npc \in {"submit", "return"})
    /\ \A p \in Deleted : OfDuplicate(p) /\ extract_video_id(p) \in ta_video
    /\ \A p \in DOMAIN fs_start : extract_video_id(p) \notin ta_video => Exists(fs, p)
    /\ \A i, j \in 1..Len(files_to_remove) :
         files_to_remove[i] = files_to_remove[j] => i = j
    /\ Len(futures) <= Len(files_to_remove)
    /\ npc = "return" =>
         \A k \in 1..Len(files_to_remove) :
           files_to_remove[k] \notin failed_deletes => ~Exists(fs, files_to_remove[k])

\* C30 witness: the script is over, one delete failed and another file was
\* deleted, and a file of an identifier the index does not hold is still there.
C30_Witness ==
    /\ npc = "return"
    /\ failed_deletes # {}
    /\ Deleted # {}
    /\ \E p \in DOMAIN fs : extract_video_id(p) # NoId /\ extract_video_id(p) \notin ta_video

====
